---- MODULE Spec2Model ----
(***************************************************************************)
(* Model of the Quiz component (src/src/pages/AddWord.tsx, lines 962-1659) *)
(* of the Dictovo client: the React state of the component, the react-query *)
(* query that fetches the questions, the mutation that submits the results, *)
(* and the interval of the timer effect with the closure it captured.       *)
(*                                                                         *)
(* Every action is one event handler run to completion together with the   *)
(* re-render and the effects that follow it.                               *)
(*                                                                         *)
(* The module also models the AuthProvider (src/unnamed/part_000) and, of   *)
(* the AddWord component (src/src/pages/AddWord.tsx, lines 56-320), the     *)
(* bulk creation of extracted words and the dictionary auto-fill.          *)
(***************************************************************************)
EXTENDS Integers, Sequences, FiniteSets, TLC

\* ---------------------------------------------------------------- bounds
MaxInFlight == 1        \* submissions in flight the user starts a session over;
                        \* the user finishes with fewer than that in flight
MaxWaiters == 2         \* startQuiz invocations awaiting one fetch
MaxConfigChanges == 2   \* changes of the configuration
MaxReviews == 1         \* calls of markWordsForReview awaiting their requests
MaxAuthInFlight == 2    \* requests of the AuthProvider in flight
MaxLookups == 2         \* dictionary lookups in flight
MaxRequests == 2        \* requests of the AddWord page in flight, of any kind

\* ------------------------------------------------------ program constants
SecondsPerQuestion == 30
DefaultQuestionCount == 10

\* --------------------------------------------------------------- domains
\* The quiz types, question counts and status filters the user switches
\* between, of those the configuration view offers (lines 1261, 1289-1292,
\* 1305-1308).
QuizTypes == {"meaning", "mixed"}
QuestionCounts == {5, DefaultQuestionCount}
Statuses == {"all", "learning"}
Keys == QuizTypes \X QuestionCounts \X Statuses

Words == {"w1", "w2"}
Options == {"a", "b"}

\* QuizQuestion (lines 980-988): the correct answer is one of the options.
Question(w, c) ==
    [wordId |-> w, word |-> w, question |-> w, correctAnswer |-> c]

Q1 == Question("w1", "a")
Q2 == Question("w2", "b")

\* The question lists the provider may answer with.
Responses == {<< >>, <<Q1>>, <<Q2>>, <<Q1, Q2>>}
\* The lists the provider answers with where several keys are explored.
ShortResponses == {<< >>, <<Q1>>}

\* quizData of useQuery: undefined (has = FALSE) or a QuizResponse.
NoData == [has |-> FALSE, questions |-> << >>]
Data(qs) == [has |-> TRUE, questions |-> qs]

\* The state of one query of the query cache before its first fetch.
IdleQuery == [data |-> NoData, err |-> FALSE, waiters |-> 0]

\* submitResultsMutation.data: undefined (has = FALSE), or the summary the
\* service answered with; current tells whether the submission it answers was
\* made by the session that is current now.
NoSummary == [has |-> FALSE, current |-> FALSE]

EmptyAnswers == [w \in {} |-> "a"]

VARIABLES
    quizType, questionCount, status,      \* useState, lines 1006-1008
    currentQuestionIndex,                 \* line 1009
    selectedAnswers,                      \* line 1010
    showResults,                          \* line 1011
    quizStarted,                          \* line 1012
    timeLeft,                             \* line 1013
    timerActive,                          \* line 1014
    quizResults,                          \* line 1015
    cache,                                \* react-query cache, one query per key
    intervalOn,                           \* the interval of the timer effect is set
    capAnswers, capData,                  \* selectedAnswers / quizData the interval's closure holds
    pendingSubmits,                       \* submissions in flight, in the order of their mutate calls
    mutationData,                         \* submitResultsMutation.data
    toast,                            \* the toast the last handler issued
    configChanges,                        \* changes of the configuration so far
    discarded,                            \* keys whose fetch in flight was awaited only by
                                          \* startQuiz calls made before the last resetQuiz
    sessionSubmits,                       \* mutate calls since the session was created:
                                          \* 0, 1, or 2 for two or more
    reviews,                              \* the calls of markWordsForReview that still have
                                          \* a PUT request in flight, oldest first
    revisit,                              \* the user's way around the first question of the
                                          \* session: "none", "away" (left it by Next), "back"
                                          \* (returned by Previous), "changed" (then replaced
                                          \* its answer by another)
    \* AuthProvider (src/unnamed/part_000)
    user,                                 \* useState, line 38
    token,                                \* line 39
    authIsLoading,                        \* isLoading, line 40
    localStorageToken,                    \* localStorage item 'token'
    profileChecks,                        \* GET /auth/profile in flight, per token sent
    authCalls,                            \* login / register / updateUser calls awaiting
                                          \* their request
    authResult,                           \* how the promise of the login / register /
                                          \* updateUser call that settled last did settle
    loggedOut,                            \* logout was called, and no login or register
                                          \* has succeeded since
    \* AddWord (src/src/pages/AddWord.tsx, lines 56-320)
    mounted,                              \* the component is mounted
    isProcessing,                         \* line 64
    isFetchingWord,                       \* line 65
    autoFillSuccess,                      \* line 66
    extractedWords,                       \* line 67
    selectedWords,                        \* line 68
    isBulkAdding,                         \* line 71
    watchedWord,                          \* watch('word'), line 90
    formDetails,                          \* the word whose details fill the form fields
                                          \* meaning, example, synonyms, ...
    debounce,                             \* the timeout of the auto-fetch effect, with
                                          \* the word its closure holds
    \* The requests in flight, oldest first; live tells whether the instance
    \* of the component that sent the request is still the mounted one.
    lookups,                              \* GET /vocabulary/word/...
    extractions,                          \* POST /upload/text, /upload/pdf, /upload/image
    mutations                             \* POST /vocabulary/bulk (bulkCreateMutation) and
                                          \* POST /vocabulary (createMutation)

vars == <<quizType, questionCount, status, currentQuestionIndex,
          selectedAnswers, showResults, quizStarted, timeLeft, timerActive,
          quizResults, cache, intervalOn, capAnswers, capData,
          pendingSubmits, mutationData, toast, configChanges, discarded,
          sessionSubmits, reviews, revisit,
          user, token, authIsLoading, localStorageToken, profileChecks,
          authCalls, authResult, loggedOut,
          mounted, isProcessing, isFetchingWord, autoFillSuccess,
          extractedWords, selectedWords, isBulkAdding,
          watchedWord, formDetails, debounce, lookups, extractions,
          mutations>>

configVars == <<quizType, questionCount, status>>
sessionVars == <<currentQuestionIndex, selectedAnswers, showResults,
                 quizStarted, timeLeft, timerActive, quizResults>>
closureVars == <<intervalOn, capAnswers, capData>>
mutationVars == <<pendingSubmits, mutationData>>
\* The state of the Quiz component but the toast.
quizState == <<configVars, sessionVars, cache, closureVars, mutationVars,
               configChanges, discarded, sessionSubmits, reviews, revisit>>
authVars == <<user, token, authIsLoading, localStorageToken, profileChecks,
              authCalls, authResult, loggedOut>>
addWordVars == <<mounted, isProcessing, isFetchingWord, autoFillSuccess,
                 extractedWords, selectedWords, isBulkAdding,
                 watchedWord, formDetails, debounce, lookups, extractions,
                 mutations>>
\* The state of the mounted instance of AddWord, and its requests in flight.
instanceVars == <<isProcessing, isFetchingWord, autoFillSuccess,
                  extractedWords, selectedWords, isBulkAdding,
                  watchedWord, formDetails>>
requestVars == <<lookups, extractions, mutations>>

\* ------------------------------------------------------- derived values
Key == <<quizType, questionCount, status>>
quizData == cache[Key].data
error == cache[Key].err
\* react-query v3: status 'loading' = fetching with no data yet.
isLoading == ~cache[Key].data.has /\ cache[Key].waiters > 0

\* selectedAnswers[id] || ''
AnswerOf(ans, w) == IF w \in DOMAIN ans THEN ans[w] ELSE ""

\* What the component renders (lines 1201, 1244, 1369, 1385).
View ==
    IF error THEN "error"
    ELSE IF ~quizStarted THEN "config"
    ELSE IF ~quizData.has \/ currentQuestionIndex >= Len(quizData.questions)
         THEN "spinner"
    ELSE "quiz"

currentQuestion == quizData.questions[currentQuestionIndex + 1]
isLastQuestion == currentQuestionIndex = Len(quizData.questions) - 1
hasAnswered == AnswerOf(selectedAnswers, currentQuestion.wordId) # ""

\* Mutant: any recorded answer counts as correct.
ResultOf_AnsweredIsCorrect(q, ans) ==
    [wordId |-> q.wordId,
     selectedAnswer |-> AnswerOf(ans, q.wordId),
     correct |-> (q.wordId \in DOMAIN ans),
     correctAnswer |-> q.correctAnswer,
     word |-> q.word,
     question |-> q.question]

\* The results handleFinishQuiz maps the questions to (lines 1123-1130).
ResultOf(q, ans) ==
    [wordId |-> q.wordId,
     selectedAnswer |-> AnswerOf(ans, q.wordId),
     correct |-> (q.wordId \in DOMAIN ans /\ ans[q.wordId] = q.correctAnswer),
     correctAnswer |-> q.correctAnswer,
     word |-> q.word,
     question |-> q.question]

\* Mutant: the questions left unanswered get no entry.
ComputeResults_AnsweredOnly(qs, ans) ==
    SelectSeq([i \in 1..Len(qs) |-> ResultOf(qs[i], ans)],
              LAMBDA r : r.selectedAnswer # "")

ComputeResults(qs, ans) == [i \in 1..Len(qs) |-> ResultOf(qs[i], ans)]

\* A submission in flight: latest tells whether it is the mutation the
\* mutation observer follows (the one of the last mutate call), current
\* whether it was made by the session that is current now.
NewSubmission == [current |-> TRUE, latest |-> TRUE]
Superseded(ps) == [i \in 1..Len(ps) |-> [ps[i] EXCEPT !.latest = FALSE]]
OfEarlierSession(ps) == [i \in 1..Len(ps) |-> [ps[i] EXCEPT !.current = FALSE]]
RemoveAt(ps, i) == [j \in 1..(Len(ps) - 1) |-> IF j < i THEN ps[j] ELSE ps[j + 1]]

\* --------------------------------------------------- AuthProvider values
\* null, for the user and for the token.
NoUser == "none"
NoToken == "none"
Users == {"u1", "u2"}
\* "t0" is a token a previous visit left in localStorage; "t1" and "t2" are
\* the tokens the service issues at login and registration.
Tokens == {"t0", "t1", "t2"}
Owner(t) == IF t = "t2" THEN "u2" ELSE "u1"
IssuedTo(u) == IF u = "u2" THEN "t2" ELSE "t1"

AuthCallKinds == {"login", "register", "update"}
AuthInFlight ==
    profileChecks["t0"] + profileChecks["t1"] + profileChecks["t2"]
      + authCalls["login"] + authCalls["register"] + authCalls["update"]

\* The AuthProvider after its first render and effects (lines 38-68), with
\* stored the item 'token' of localStorage: with a token the profile check is
\* in flight, without one isLoading is cleared at once.
AuthProviderInit(stored) ==
    /\ user = NoUser
    /\ token = stored
    /\ localStorageToken = stored
    /\ authIsLoading = (stored # NoToken)
    /\ profileChecks = [t \in Tokens |-> IF t = stored THEN 1 ELSE 0]
    /\ authCalls = [k \in AuthCallKinds |-> 0]
    /\ authResult = "none"
    /\ loggedOut = FALSE

\* -------------------------------------------------------- AddWord values
\* What the word field may hold, as sequences of characters: nothing, a word
\* too short to look up, two words, and a word with a trailing blank.
WordInputs ==
    {<< >>, <<"g", "o">>, <<"c", "a", "t">>, <<"d", "o", "g">>,
     <<"c", "a", "t", " ">>}

\* String.prototype.trim on such a sequence.
RECURSIVE TrimLeft(_)
TrimLeft(w) ==
    IF w # << >> /\ Head(w) = " " THEN TrimLeft(Tail(w)) ELSE w
RECURSIVE TrimRight(_)
TrimRight(w) ==
    IF w # << >> /\ w[Len(w)] = " "
    THEN TrimRight(SubSeq(w, 1, Len(w) - 1)) ELSE w
Trim(w) == TrimRight(TrimLeft(w))

\* watchedWord && watchedWord.trim().length > 2 (lines 96, 736).
Lookable(w) == w # << >> /\ Len(Trim(w)) > 2

\* The words an extraction may return.
Extractable == {<<"c", "a", "t">>, <<"d", "o", "g">>}

\* The AddWord component after its first render and effects (lines 63-125):
\* the auto-fetch effect has set its timeout for the empty word field.
AddWordInit ==
    /\ mounted = TRUE
    /\ isProcessing = FALSE
    /\ isFetchingWord = FALSE
    /\ autoFillSuccess = FALSE
    /\ extractedWords = {}
    /\ selectedWords = {}
    /\ isBulkAdding = FALSE
    /\ watchedWord = << >>
    /\ formDetails = << >>
    /\ debounce = [set |-> TRUE, word |-> << >>]
    /\ lookups = << >>
    /\ extractions = << >>
    /\ mutations = << >>

\* ------------------------------------------------------------- Init
\* The Quiz component after construction.
QuizInit ==
    /\ quizType = "meaning"
    /\ questionCount = DefaultQuestionCount
    /\ status = "all"
    /\ currentQuestionIndex = 0
    /\ selectedAnswers = EmptyAnswers
    /\ showResults = FALSE
    /\ quizStarted = FALSE
    /\ timeLeft = 0
    /\ timerActive = FALSE
    /\ quizResults = << >>
    /\ cache = [k \in Keys |-> IdleQuery]
    /\ intervalOn = FALSE
    /\ capAnswers = EmptyAnswers
    /\ capData = NoData
    /\ pendingSubmits = << >>
    /\ mutationData = NoSummary
    /\ toast = "none"
    /\ configChanges = 0
    /\ discarded = {}
    /\ sessionSubmits = 0
    /\ revisit = "none"
    /\ reviews = << >>

\* The quiz is explored with the other components as a visitor without a
\* stored token finds them.
Init == QuizInit /\ AuthProviderInit(NoToken) /\ AddWordInit

\* The AuthProvider is explored from both loads, with and without a token
\* in localStorage.
InitAuth ==
    /\ QuizInit
    /\ \E stored \in {NoToken, "t0"} : AuthProviderInit(stored)
    /\ AddWordInit

\* ------------------------------------------------------ timer effect
\* Mutant: the effect has no cleanup, an interval once set is never cleared.
TimerEffect_NoCleanup ==
    IF <<timerActive', timeLeft'>> # <<timerActive, timeLeft>>
    THEN /\ intervalOn' = (intervalOn \/ (timerActive' /\ timeLeft' > 0))
         /\ capAnswers' = selectedAnswers'
         /\ capData' = cache'[Key'].data
    ELSE UNCHANGED closureVars

\* useEffect(..., [timerActive, timeLeft]) (lines 1060-1075): when one of
\* the dependencies changed in the render that follows the handler, the old
\* interval is cleared and, if the timer is active with time left, a new one
\* is set whose callback closes over that render's handleFinishQuiz, i.e.
\* over that render's selectedAnswers and quizData.
TimerEffect ==
    IF <<timerActive', timeLeft'>> # <<timerActive, timeLeft>>
    THEN /\ intervalOn' = (timerActive' /\ timeLeft' > 0)
         /\ capAnswers' = selectedAnswers'
         /\ capData' = cache'[Key'].data
    ELSE UNCHANGED closureVars

\* ------------------------------------------------- handleFinishQuiz
\* Mutant: the results are not shown by the finish itself (they would be
\* shown once the response of the submission is there).
handleFinishQuiz_ResultsOnResponse(data, ans) ==
    /\ timerActive' = FALSE
    /\ IF ~data.has
       THEN UNCHANGED <<quizResults, showResults, mutationVars, sessionSubmits>>
       ELSE LET results == ComputeResults(data.questions, ans) IN
            /\ quizResults' = results
            /\ pendingSubmits' = Append(Superseded(pendingSubmits), NewSubmission)
            /\ mutationData' = NoSummary
            /\ sessionSubmits' = IF sessionSubmits = 0 THEN 1 ELSE 2
            /\ UNCHANGED showResults

\* lines 1119-1135, run with the quizData and selectedAnswers of the render
\* the caller's closure comes from.
handleFinishQuiz(data, ans) ==
    /\ timerActive' = FALSE
    /\ IF ~data.has
       THEN UNCHANGED <<quizResults, showResults, mutationVars, sessionSubmits>>
       ELSE LET results == ComputeResults(data.questions, ans) IN
            /\ quizResults' = results
            /\ pendingSubmits' = Append(Superseded(pendingSubmits), NewSubmission)
            /\ mutationData' = NoSummary
            /\ sessionSubmits' = IF sessionSubmits = 0 THEN 1 ELSE 2
            /\ showResults' = TRUE

\* ------------------------------------------------ configuration view
SetQuizType(t) ==
    /\ View = "config"
    /\ configChanges < MaxConfigChanges
    /\ configChanges' = configChanges + 1
    /\ t # quizType
    /\ quizType' = t
    /\ UNCHANGED <<questionCount, status, sessionVars, cache, closureVars,
                   mutationVars, discarded, sessionSubmits, revisit,
                   reviews>>
    /\ toast' = "none"
    /\ UNCHANGED <<authVars, addWordVars>>

\* The select of the number of questions (line 1286).
SetQuestionCount(n) ==
    /\ View = "config"
    /\ configChanges < MaxConfigChanges
    /\ configChanges' = configChanges + 1
    /\ n # questionCount
    /\ questionCount' = n
    /\ UNCHANGED <<quizType, status, sessionVars, cache, closureVars,
                   mutationVars, discarded, sessionSubmits, revisit,
                   reviews>>
    /\ toast' = "none"
    /\ UNCHANGED <<authVars, addWordVars>>

\* The select of the word status filter (line 1302).
SetStatus(st) ==
    /\ View = "config"
    /\ configChanges < MaxConfigChanges
    /\ configChanges' = configChanges + 1
    /\ st # status
    /\ status' = st
    /\ UNCHANGED <<quizType, questionCount, sessionVars, cache, closureVars,
                   mutationVars, discarded, sessionSubmits, revisit,
                   reviews>>
    /\ toast' = "none"
    /\ UNCHANGED <<authVars, addWordVars>>

\* ------------------------------------------------------- startQuiz
\* startQuiz up to its await (lines 1077-1079): refetch() starts a fetch of
\* the current key, or joins the fetch of that key already in flight.
StartQuiz ==
    /\ View = "config"
    /\ ~isLoading
    /\ Len(pendingSubmits) <= MaxInFlight
    /\ cache[Key].waiters < MaxWaiters
    /\ cache' = [cache EXCEPT ![Key] =
                   [data |-> @.data,
                    err |-> IF @.waiters = 0 /\ ~@.data.has THEN FALSE ELSE @.err,
                    waiters |-> @.waiters + 1]]
    /\ discarded' = discarded \ {Key}
    /\ UNCHANGED <<configVars, sessionVars, closureVars, mutationVars,
                   configChanges, reviews, sessionSubmits, revisit>>
    /\ toast' = "none"
    /\ UNCHANGED <<authVars, addWordVars>>

\* Mutant: the time budget is taken from the configured question count, as the
\* preview of the configuration view does (line 1328), not from the list.
StartQuizResume_BudgetFromCount ==
    LET data == cache'[Key].data IN
    IF data.has /\ Len(data.questions) > 0
    THEN /\ quizStarted' = TRUE
         /\ currentQuestionIndex' = 0
         /\ selectedAnswers' = EmptyAnswers
         /\ showResults' = FALSE
         /\ timeLeft' = questionCount * SecondsPerQuestion
         /\ timerActive' = TRUE
         /\ sessionSubmits' = 0
         /\ revisit' = "none"
         /\ pendingSubmits' = OfEarlierSession(pendingSubmits)
         /\ mutationData' = [mutationData EXCEPT !.current = FALSE]
         /\ toast' = "none"
         /\ UNCHANGED quizResults
    ELSE /\ toast' = "no_questions"
         /\ UNCHANGED <<sessionVars, mutationVars, sessionSubmits, revisit>>

\* startQuiz after its await (lines 1080-1089).  refetch() does not throw
\* (throwOnError is not set); it resolves to the observer's current result,
\* the result of the query of the key rendered last.
StartQuizResume ==
    LET data == cache'[Key].data IN
    IF data.has /\ Len(data.questions) > 0
    THEN /\ quizStarted' = TRUE
         /\ currentQuestionIndex' = 0
         /\ selectedAnswers' = EmptyAnswers
         /\ showResults' = FALSE
         /\ timeLeft' = Len(data.questions) * SecondsPerQuestion
         /\ timerActive' = TRUE
         /\ sessionSubmits' = 0
         /\ revisit' = "none"
         /\ pendingSubmits' = OfEarlierSession(pendingSubmits)
         /\ mutationData' = [mutationData EXCEPT !.current = FALSE]
         /\ toast' = "none"
         /\ UNCHANGED quizResults
    ELSE /\ toast' = "no_questions"
         /\ UNCHANGED <<sessionVars, mutationVars, sessionSubmits, revisit>>

\* The fetch of key k succeeds with the question list qs.
FetchSuccess(k, qs) ==
    /\ cache[k].waiters > 0
    /\ cache' = [cache EXCEPT ![k] =
                   [data |-> Data(qs), err |-> FALSE, waiters |-> 0]]
    /\ StartQuizResume
    /\ discarded' = discarded \ {k}
    /\ UNCHANGED <<configVars, configChanges, reviews>>
    /\ TimerEffect
    /\ UNCHANGED <<authVars, addWordVars>>

\* The fetch of key k fails (retry: false): the query keeps its data.
FetchFail(k) ==
    /\ cache[k].waiters > 0
    /\ cache' = [cache EXCEPT ![k] =
                   [data |-> @.data, err |-> TRUE, waiters |-> 0]]
    /\ StartQuizResume
    /\ discarded' = discarded \ {k}
    /\ UNCHANGED <<configVars, configChanges, reviews>>
    /\ TimerEffect
    /\ UNCHANGED <<authVars, addWordVars>>

\* ------------------------------------------------------- quiz view
\* Mutant: the new map holds the new entry only (no spread of prev).
handleAnswerSelect_DropsOthers(questionId, answer) ==
    selectedAnswers' = [w \in {questionId} |-> answer]

\* handleAnswerSelect (lines 1098-1103): { ...prev, [questionId]: answer }.
handleAnswerSelect(questionId, answer) ==
    selectedAnswers' =
        [w \in DOMAIN selectedAnswers \cup {questionId} |->
            IF w = questionId THEN answer ELSE selectedAnswers[w]]

\* Mutant: selecting an answer also moves on to the next question.
AnswerSelect_Advances(o) ==
    /\ View = "quiz"
    /\ handleAnswerSelect(currentQuestion.wordId, o)
    /\ selectedAnswers' # selectedAnswers
    /\ currentQuestionIndex' = IF isLastQuestion THEN currentQuestionIndex
                               ELSE currentQuestionIndex + 1
    /\ UNCHANGED <<configVars, showResults, quizStarted,
                   timeLeft, timerActive, quizResults, cache, closureVars,
                   mutationVars, configChanges, reviews, discarded, sessionSubmits>>
    /\ revisit' = revisit
    /\ toast' = "none"
    /\ UNCHANGED <<authVars, addWordVars>>

\* An option button of the current question (lines 1438-1441).
AnswerSelect(o) ==
    /\ View = "quiz"
    /\ handleAnswerSelect(currentQuestion.wordId, o)
    /\ selectedAnswers' # selectedAnswers
    /\ UNCHANGED <<configVars, currentQuestionIndex, showResults, quizStarted,
                   timeLeft, timerActive, quizResults, cache, closureVars,
                   mutationVars, configChanges, reviews, discarded, sessionSubmits>>
    /\ revisit' = IF /\ revisit = "back" /\ currentQuestionIndex = 0
                     /\ hasAnswered /\ ~showResults
                  THEN "changed" ELSE revisit
    /\ toast' = "none"
    /\ UNCHANGED <<authVars, addWordVars>>

\* handleNextQuestion (lines 1105-1111) behind the Next button, which is
\* disabled unless the question is answered and is not the last (line 1494).
NextQuestion ==
    /\ View = "quiz"
    /\ hasAnswered /\ ~isLastQuestion
    /\ IF currentQuestionIndex < Len(quizData.questions) - 1
       THEN /\ currentQuestionIndex' = currentQuestionIndex + 1
            /\ revisit' = IF currentQuestionIndex = 0 /\ revisit # "changed"
                          THEN "away" ELSE revisit
            /\ UNCHANGED <<timerActive, quizResults, showResults,
                           mutationVars, sessionSubmits>>
       ELSE /\ handleFinishQuiz(quizData, selectedAnswers)
            /\ UNCHANGED <<currentQuestionIndex, revisit>>
    /\ UNCHANGED <<configVars, selectedAnswers, quizStarted, timeLeft, cache,
                   configChanges, reviews, discarded>>
    /\ toast' = "none"
    /\ TimerEffect
    /\ UNCHANGED <<authVars, addWordVars>>

\* Mutant: going back clears the answer of the question that is left.
PreviousQuestion_ClearsAnswer ==
    /\ View = "quiz"
    /\ currentQuestionIndex # 0
    /\ currentQuestionIndex' = currentQuestionIndex - 1
    /\ selectedAnswers' =
          [w \in DOMAIN selectedAnswers \ {currentQuestion.wordId} |->
              selectedAnswers[w]]
    /\ UNCHANGED <<configVars, showResults, quizStarted,
                   timeLeft, timerActive, quizResults, cache, closureVars,
                   mutationVars, configChanges, reviews, discarded, sessionSubmits>>
    /\ revisit' = IF currentQuestionIndex' = 0 /\ revisit = "away"
                  THEN "back" ELSE revisit
    /\ toast' = "none"
    /\ UNCHANGED <<authVars, addWordVars>>

\* handlePreviousQuestion (lines 1113-1117); the button is disabled at 0.
PreviousQuestion ==
    /\ View = "quiz"
    /\ currentQuestionIndex # 0
    /\ IF currentQuestionIndex > 0
       THEN currentQuestionIndex' = currentQuestionIndex - 1
       ELSE UNCHANGED currentQuestionIndex
    /\ UNCHANGED <<configVars, selectedAnswers, showResults, quizStarted,
                   timeLeft, timerActive, quizResults, cache, closureVars,
                   mutationVars, configChanges, reviews, discarded, sessionSubmits>>
    /\ revisit' = IF currentQuestionIndex' = 0 /\ revisit = "away"
                  THEN "back" ELSE revisit
    /\ toast' = "none"
    /\ UNCHANGED <<authVars, addWordVars>>

\* Mutant: the button calls a handleFinishQuiz of an earlier render, the one
\* the timer's interval holds.
FinishQuiz_StaleAnswers ==
    /\ View = "quiz"
    /\ Len(pendingSubmits) < MaxInFlight
    /\ handleFinishQuiz(quizData, capAnswers)
    /\ UNCHANGED <<configVars, currentQuestionIndex, selectedAnswers,
                   quizStarted, timeLeft, cache, configChanges, reviews, discarded,
                   revisit>>
    /\ toast' = "none"
    /\ TimerEffect
    /\ UNCHANGED <<authVars, addWordVars>>

\* The Finish Quiz button (line 1484); it stays rendered, and enabled,
\* while the results modal is shown.
FinishQuiz ==
    /\ View = "quiz"
    /\ Len(pendingSubmits) < MaxInFlight
    /\ handleFinishQuiz(quizData, selectedAnswers)
    /\ UNCHANGED <<configVars, currentQuestionIndex, selectedAnswers,
                   quizStarted, timeLeft, cache, configChanges, reviews, discarded,
                   revisit>>
    /\ toast' = "none"
    /\ TimerEffect
    /\ UNCHANGED <<authVars, addWordVars>>

\* Mutant: resetQuiz leaves the timer as it is.
ResetQuiz_TimerLeftRunning ==
    /\ View = "quiz"
    /\ quizStarted' = FALSE
    /\ currentQuestionIndex' = 0
    /\ selectedAnswers' = EmptyAnswers
    /\ showResults' = FALSE
    /\ quizResults' = << >>
    /\ discarded' = {k \in Keys : cache[k].waiters > 0}
    /\ revisit' = "none"
    /\ UNCHANGED <<configVars, timeLeft, timerActive, cache, mutationVars,
                   configChanges, reviews, sessionSubmits>>
    /\ toast' = "none"
    /\ TimerEffect
    /\ UNCHANGED <<authVars, addWordVars>>

\* resetQuiz (lines 1137-1145), behind Reset Quiz and Take Another Quiz.
ResetQuiz ==
    /\ View = "quiz"
    /\ quizStarted' = FALSE
    /\ currentQuestionIndex' = 0
    /\ selectedAnswers' = EmptyAnswers
    /\ showResults' = FALSE
    /\ timeLeft' = 0
    /\ timerActive' = FALSE
    /\ quizResults' = << >>
    /\ discarded' = {k \in Keys : cache[k].waiters > 0}
    /\ revisit' = "none"
    /\ UNCHANGED <<configVars, cache, mutationVars, configChanges, reviews,
                   sessionSubmits>>
    /\ toast' = "none"
    /\ TimerEffect
    /\ UNCHANGED <<authVars, addWordVars>>

\* ----------------------------------------------------------- timer
\* Mutant: the last second only sets the time to 0, nothing finishes.
Tick_NoFinish ==
    /\ intervalOn
    /\ IF timeLeft <= 1
       THEN /\ timeLeft' = 0
            /\ UNCHANGED <<timerActive, quizResults, showResults,
                           mutationVars, sessionSubmits>>
       ELSE /\ timeLeft' = timeLeft - 1
            /\ UNCHANGED <<timerActive, quizResults, showResults,
                           mutationVars, sessionSubmits>>
    /\ UNCHANGED <<configVars, currentQuestionIndex, selectedAnswers,
                   quizStarted, cache, configChanges, reviews, discarded, revisit>>
    /\ toast' = "none"
    /\ TimerEffect
    /\ UNCHANGED <<authVars, addWordVars>>

\* The interval's callback (lines 1063-1071): the updater reads the current
\* timeLeft, and on the last second calls the handleFinishQuiz its closure
\* captured.
Tick ==
    /\ intervalOn
    /\ IF timeLeft <= 1
       THEN /\ handleFinishQuiz(capData, capAnswers)
            /\ timeLeft' = 0
       ELSE /\ timeLeft' = timeLeft - 1
            /\ UNCHANGED <<timerActive, quizResults, showResults,
                           mutationVars, sessionSubmits>>
    /\ UNCHANGED <<configVars, currentQuestionIndex, selectedAnswers,
                   quizStarted, cache, configChanges, reviews, discarded, revisit>>
    /\ toast' = "none"
    /\ TimerEffect
    /\ UNCHANGED <<authVars, addWordVars>>

\* ------------------------------------------- submitResultsMutation
\* Mutant: the summary of any submission that succeeds is taken, whether or
\* not it is the one of the last mutate call.
SubmitSuccess_AnyMutation(i) ==
    /\ i \in 1..Len(pendingSubmits)
    /\ pendingSubmits' = RemoveAt(pendingSubmits, i)
    /\ mutationData' = [has |-> TRUE, current |-> pendingSubmits[i].current]
    /\ toast' = "submit_ok"
    /\ UNCHANGED <<configVars, sessionVars, cache, closureVars, configChanges, reviews,
                   discarded, sessionSubmits, revisit>>
    /\ UNCHANGED <<authVars, addWordVars>>

\* The POST of the i-th submission in flight succeeds (onSuccess, lines
\* 1048-1052).  Only the mutation the observer follows, the latest, sets
\* submitResultsMutation.data.
SubmitSuccess(i) ==
    /\ i \in 1..Len(pendingSubmits)
    /\ pendingSubmits' = RemoveAt(pendingSubmits, i)
    /\ mutationData' = IF pendingSubmits[i].latest
                       THEN [has |-> TRUE, current |-> pendingSubmits[i].current]
                       ELSE mutationData
    /\ toast' = "submit_ok"
    /\ UNCHANGED <<configVars, sessionVars, cache, closureVars, configChanges, reviews,
                   discarded, sessionSubmits, revisit>>
    /\ UNCHANGED <<authVars, addWordVars>>

\* Mutant: the failed POST is sent again.
SubmitFail_Retries(i) ==
    /\ i \in 1..Len(pendingSubmits)
    /\ pendingSubmits' = pendingSubmits
    /\ toast' = "submit_failed"
    /\ UNCHANGED <<configVars, sessionVars, cache, closureVars, mutationData,
                   configChanges, reviews, discarded, sessionSubmits, revisit>>
    /\ UNCHANGED <<authVars, addWordVars>>

\* The POST fails (onError, lines 1053-1055).
SubmitFail(i) ==
    /\ i \in 1..Len(pendingSubmits)
    /\ pendingSubmits' = RemoveAt(pendingSubmits, i)
    /\ toast' = "submit_failed"
    /\ UNCHANGED <<configVars, sessionVars, cache, closureVars, mutationData,
                   configChanges, reviews, discarded, sessionSubmits, revisit>>
    /\ UNCHANGED <<authVars, addWordVars>>

\* ------------------------------------------------ markWordsForReview
\* Mutant: the filter is dropped, every word of the result is marked.
IncorrectWords_All(rs) == [i \in 1..Len(rs) |-> rs[i].wordId]

\* quizResults.filter(result => !result.correct).map(result => result.wordId)
\* (lines 1148-1150).
IncorrectWords(rs) ==
    LET wrong == SelectSeq(rs, LAMBDA r : ~r.correct) IN
    [i \in 1..Len(wrong) |-> wrong[i].wordId]

\* A call of markWordsForReview at its await (lines 1159-1163): the PUT
\* requests it issued, one per element of incorrectWords, which of them are
\* in flight and which succeeded, and whether the call has reported already.
\* Promise.all rejects with the first request that fails.
NewReview(ws) ==
    [requests |-> [i \in 1..Len(ws) |->
                      [wordId |-> ws[i], status |-> "reviewing"]],
     inflight |-> 1..Len(ws),
     succeeded |-> {},
     reported |-> FALSE]

\* The request j of call i has settled: a call none of whose requests is in
\* flight any more is dropped.
Settle(i, j, ok, rep) ==
    LET r == reviews[i]
        left == r.inflight \ {j}
    IN  reviews' =
            IF left = {}
            THEN RemoveAt(reviews, i)
            ELSE [reviews EXCEPT ![i] =
                     [requests |-> r.requests,
                      inflight |-> left,
                      succeeded |-> IF ok THEN r.succeeded \cup {j}
                                          ELSE r.succeeded,
                      reported |-> rep]]

\* Mutant: with nothing to mark the handler reports a failure.
markWordsForReview_EmptyIsError ==
    /\ LET incorrectWords == IncorrectWords(quizResults) IN
       IF Len(incorrectWords) = 0
       THEN /\ toast' = "review_failed"
            /\ UNCHANGED reviews
       ELSE /\ reviews' = Append(reviews, NewReview(incorrectWords))
            /\ toast' = "none"
    /\ UNCHANGED <<configVars, sessionVars, cache, closureVars, mutationVars,
                   configChanges, discarded, sessionSubmits, revisit>>
    /\ UNCHANGED <<authVars, addWordVars>>

\* markWordsForReview up to its await (lines 1147-1163): with no incorrect
\* word it reports with toast.success and returns (lines 1152-1155).
markWordsForReview ==
    /\ LET incorrectWords == IncorrectWords(quizResults) IN
       IF Len(incorrectWords) = 0
       THEN /\ toast' = "review_none"
            /\ UNCHANGED reviews
       ELSE /\ reviews' = Append(reviews, NewReview(incorrectWords))
            /\ toast' = "none"
    /\ UNCHANGED <<configVars, sessionVars, cache, closureVars, mutationVars,
                   configChanges, discarded, sessionSubmits, revisit>>
    /\ UNCHANGED <<authVars, addWordVars>>

\* The button of the results modal, which is rendered while an entry is
\* incorrect (line 1637).
MarkWordsForReview ==
    /\ View = "quiz"
    /\ showResults
    /\ \E i \in 1..Len(quizResults) : ~quizResults[i].correct
    /\ Len(reviews) < MaxReviews
    /\ markWordsForReview

\* markWordsForReview invoked on the QuizResult of a finished session,
\* whatever its entries are.
CallMarkWordsForReview ==
    /\ View = "quiz"
    /\ showResults
    /\ Len(quizResults) > 0
    /\ Len(reviews) < MaxReviews
    /\ markWordsForReview

\* A PUT request succeeds.  When it was the last one in flight and none has
\* failed, Promise.all resolves and the call reports success (line 1165).
PutSuccess(i, j) ==
    /\ i \in 1..Len(reviews)
    /\ j \in reviews[i].inflight
    /\ Settle(i, j, TRUE, reviews[i].reported)
    /\ toast' = IF reviews[i].inflight = {j} /\ ~reviews[i].reported
                THEN "review_ok" ELSE "none"
    /\ UNCHANGED <<configVars, sessionVars, cache, closureVars, mutationVars,
                   configChanges, discarded, sessionSubmits, revisit>>
    /\ UNCHANGED <<authVars, addWordVars>>

\* A PUT request fails.  The first failure rejects Promise.all and the catch
\* block reports (line 1169), whatever is still in flight.
PutFail(i, j) ==
    /\ i \in 1..Len(reviews)
    /\ j \in reviews[i].inflight
    /\ Settle(i, j, FALSE, TRUE)
    /\ toast' = IF ~reviews[i].reported THEN "review_failed" ELSE "none"
    /\ UNCHANGED <<configVars, sessionVars, cache, closureVars, mutationVars,
                   configChanges, discarded, sessionSubmits, revisit>>
    /\ UNCHANGED <<authVars, addWordVars>>

\* ------------------------------------------------------- AuthProvider
\* The checkAuth effect (lines 52-68) in the render after token became tok:
\* with a token a GET /auth/profile is sent, which carries the Authorization
\* header the effect before it has just set (lines 43-49); without one
\* isLoading is cleared.
CheckAuthEffect(tok, checks) ==
    IF tok = token
    THEN profileChecks' = checks /\ UNCHANGED authIsLoading
    ELSE IF tok # NoToken
    THEN /\ profileChecks' = [checks EXCEPT ![tok] = @ + 1]
         /\ UNCHANGED authIsLoading
    ELSE /\ profileChecks' = checks
         /\ authIsLoading' = FALSE

\* login / register up to the await of the POST (lines 70-80, 96-102).
AuthCall(kind) ==
    /\ AuthInFlight < MaxAuthInFlight
    /\ authCalls' = [authCalls EXCEPT ![kind] = @ + 1]
    /\ toast' = "none"
    /\ UNCHANGED <<user, token, authIsLoading, localStorageToken,
                   profileChecks, authResult, loggedOut>>
    /\ UNCHANGED <<quizState, addWordVars>>

\* The POST succeeded for the account u (lines 82-88, 104-110).
AuthCallSuccess(kind, u) ==
    /\ authCalls[kind] > 0
    /\ authCalls' = [authCalls EXCEPT ![kind] = @ - 1]
    /\ localStorageToken' = IssuedTo(u)
    /\ token' = IssuedTo(u)
    /\ user' = u
    /\ CheckAuthEffect(IssuedTo(u), profileChecks)
    /\ toast' = IF kind = "login" THEN "login_ok" ELSE "register_ok"
    /\ authResult' = "resolved"
    /\ loggedOut' = FALSE
    /\ UNCHANGED <<quizState, addWordVars>>

\* Mutant: a failed call signs the user out.
AuthCallFail_SignsOut(kind) ==
    /\ authCalls[kind] > 0
    /\ authCalls' = [authCalls EXCEPT ![kind] = @ - 1]
    /\ localStorageToken' = NoToken
    /\ token' = NoToken
    /\ user' = NoUser
    /\ CheckAuthEffect(NoToken, profileChecks)
    /\ toast' = IF kind = "login" THEN "login_failed" ELSE "register_failed"
    /\ authResult' = "rejected"
    /\ UNCHANGED loggedOut
    /\ UNCHANGED <<quizState, addWordVars>>

\* The POST failed: the catch block issues the toast and rethrows (lines
\* 89-93, 111-115).
AuthCallFail(kind) ==
    /\ authCalls[kind] > 0
    /\ authCalls' = [authCalls EXCEPT ![kind] = @ - 1]
    /\ toast' = IF kind = "login" THEN "login_failed" ELSE "register_failed"
    /\ authResult' = "rejected"
    /\ UNCHANGED <<user, token, authIsLoading, localStorageToken,
                   profileChecks, loggedOut>>
    /\ UNCHANGED <<quizState, addWordVars>>

Login == AuthCall("login")
LoginSuccess(u) == AuthCallSuccess("login", u)
LoginFail == AuthCallFail("login")
Register == AuthCall("register")
RegisterSuccess(u) == AuthCallSuccess("register", u)
RegisterFail == AuthCallFail("register")

\* updateUser up to the await of the PUT (lines 126-128).
UpdateUser == AuthCall("update")

\* The PUT /auth/profile answers with the user u (lines 129-130).
UpdateUserSuccess(u) ==
    /\ authCalls["update"] > 0
    /\ authCalls' = [authCalls EXCEPT !["update"] = @ - 1]
    /\ user' = u
    /\ toast' = "profile_updated"
    /\ authResult' = "resolved"
    /\ UNCHANGED <<token, authIsLoading, localStorageToken, profileChecks,
                   loggedOut>>
    /\ UNCHANGED <<quizState, addWordVars>>

\* The PUT fails: toast and rethrow (lines 131-135).
UpdateUserFail ==
    /\ authCalls["update"] > 0
    /\ authCalls' = [authCalls EXCEPT !["update"] = @ - 1]
    /\ toast' = "profile_update_failed"
    /\ authResult' = "rejected"
    /\ UNCHANGED <<user, token, authIsLoading, localStorageToken,
                   profileChecks, loggedOut>>
    /\ UNCHANGED <<quizState, addWordVars>>

\* logout (lines 118-124).
Logout ==
    /\ localStorageToken' = NoToken
    /\ token' = NoToken
    /\ user' = NoUser
    /\ CheckAuthEffect(NoToken, profileChecks)
    /\ toast' = "logged_out"
    /\ loggedOut' = TRUE
    /\ UNCHANGED <<authCalls, authResult>>
    /\ UNCHANGED <<quizState, addWordVars>>

\* The profile check sent with token t succeeds (line 57), then line 64.
CheckSuccess(t) ==
    /\ profileChecks[t] > 0
    /\ profileChecks' = [profileChecks EXCEPT ![t] = @ - 1]
    /\ user' = Owner(t)
    /\ authIsLoading' = FALSE
    /\ toast' = "none"
    /\ UNCHANGED <<token, localStorageToken, authCalls, authResult, loggedOut>>
    /\ UNCHANGED <<quizState, addWordVars>>

\* The profile check sent with token t fails (lines 58-62), then line 64;
\* the effect that follows setToken(null) finds no token.
CheckFail(t) ==
    /\ profileChecks[t] > 0
    /\ profileChecks' = [profileChecks EXCEPT ![t] = @ - 1]
    /\ localStorageToken' = NoToken
    /\ token' = NoToken
    /\ authIsLoading' = FALSE
    /\ toast' = "none"
    /\ UNCHANGED <<user, authCalls, authResult, loggedOut>>
    /\ UNCHANGED <<quizState, addWordVars>>

\* ------------------------------------------------------------ AddWord
\* The requests of rs once the instance that sent them is gone.
Orphaned(rs) == [i \in 1..Len(rs) |-> [rs[i] EXCEPT !.live = FALSE]]

\* The requests of the page in flight.
Requests == Len(lookups) + Len(extractions) + Len(mutations)

\* The bulk creations in flight that the mounted instance started, and
\* createMutation.isLoading of the mounted instance.
bulkInFlight ==
    Cardinality({i \in 1..Len(mutations) :
                    mutations[i].kind = "bulk" /\ mutations[i].live})
createIsLoading ==
    \E i \in 1..Len(mutations) :
        mutations[i].kind = "create" /\ mutations[i].live

\* navigate('/vocabulary') (lines 143, 177, 935): the component is gone and
\* none of its state is left; the cleanup of the auto-fetch effect has
\* cleared the timeout (line 124).  Nothing cancels the requests ls, es and
\* ms in flight: their continuations still run.
Unmount(ls, es, ms) ==
    /\ mounted' = FALSE
    /\ isProcessing' = FALSE
    /\ isFetchingWord' = FALSE
    /\ autoFillSuccess' = FALSE
    /\ extractedWords' = {}
    /\ selectedWords' = {}
    /\ isBulkAdding' = FALSE
    /\ watchedWord' = << >>
    /\ formDetails' = << >>
    /\ debounce' = [set |-> FALSE, word |-> << >>]
    /\ lookups' = Orphaned(ls)
    /\ extractions' = Orphaned(es)
    /\ mutations' = Orphaned(ms)

\* The user comes back to the page: a new instance of the component.
MountAddWord ==
    /\ ~mounted
    /\ mounted' = TRUE
    /\ debounce' = [set |-> TRUE, word |-> << >>]
    /\ toast' = "none"
    /\ UNCHANGED <<instanceVars, requestVars>>
    /\ UNCHANGED <<quizState, authVars>>

\* The Cancel button of the form (line 935).
Cancel ==
    /\ mounted
    /\ Unmount(lookups, extractions, mutations)
    /\ toast' = "none"
    /\ UNCHANGED <<quizState, authVars>>

\* An extraction starts: setIsProcessing(true) and the POST (lines 187-189,
\* 204-211, 226-233).
StartExtraction(by) ==
    /\ mounted
    /\ Requests < MaxRequests
    /\ isProcessing' = TRUE
    /\ extractions' = Append(extractions, [by |-> by, live |-> TRUE])
    /\ toast' = "none"
    /\ UNCHANGED <<mounted, isFetchingWord, autoFillSuccess, extractedWords,
                   selectedWords, isBulkAdding, watchedWord, formDetails,
                   debounce, lookups, mutations>>
    /\ UNCHANGED <<quizState, authVars>>

\* processText up to its await (lines 186-189), behind the button that is
\* disabled while isProcessing (line 444); the user has entered a text.
ProcessText == ~isProcessing /\ StartExtraction("text")

\* onPdfDrop and onImageDrop with a file, up to their await (lines 201-211,
\* 223-233); the dropzones are not disabled while isProcessing.
OnPdfDrop == StartExtraction("pdf")
OnImageDrop == StartExtraction("image")

\* The i-th extraction in flight answers with the words ws (lines 190-192,
\* 196; 212-214, 218; 234-236, 240).  The setters of an instance that is
\* gone change nothing, the toast is issued all the same.
ProcessSuccess(i, ws) ==
    /\ i \in 1..Len(extractions)
    /\ extractions' = RemoveAt(extractions, i)
    /\ IF extractions[i].live
       THEN /\ extractedWords' = ws
            /\ selectedWords' = {}
            /\ isProcessing' = FALSE
       ELSE UNCHANGED <<extractedWords, selectedWords, isProcessing>>
    /\ toast' = "words_found"
    /\ UNCHANGED <<mounted, isFetchingWord, autoFillSuccess, isBulkAdding,
                   watchedWord, formDetails, debounce, lookups, mutations>>
    /\ UNCHANGED <<quizState, authVars>>

\* The i-th extraction fails (lines 193-196, 215-218, 237-240).
ProcessFail(i) ==
    /\ i \in 1..Len(extractions)
    /\ extractions' = RemoveAt(extractions, i)
    /\ isProcessing' = IF extractions[i].live THEN FALSE ELSE isProcessing
    /\ toast' = CASE extractions[i].by = "text" -> "process_failed"
                  [] extractions[i].by = "pdf" -> "process_pdf_failed"
                  [] OTHER -> "process_image_failed"
    /\ UNCHANGED <<mounted, isFetchingWord, autoFillSuccess, extractedWords,
                   selectedWords, isBulkAdding, watchedWord, formDetails,
                   debounce, lookups, mutations>>
    /\ UNCHANGED <<quizState, authVars>>

\* A handler that sets selectedWords only.
SetSelectedWords(ws) ==
    /\ selectedWords' = ws
    /\ toast' = "none"
    /\ UNCHANGED <<mounted, isProcessing, isFetchingWord, autoFillSuccess,
                   extractedWords, isBulkAdding, watchedWord, formDetails,
                   debounce, requestVars>>
    /\ UNCHANGED <<quizState, authVars>>

\* toggleWordSelection (lines 266-274) on a card of the extracted words.
ToggleWordSelection(w) ==
    /\ mounted /\ w \in extractedWords
    /\ SetSelectedWords(IF w \in selectedWords THEN selectedWords \ {w}
                        ELSE selectedWords \cup {w})

\* selectAllWords (lines 276-279) and deselectAllWords (lines 281-283),
\* behind the buttons of the section of the extracted words (lines 567, 573).
SelectAllWords ==
    /\ mounted /\ extractedWords # {}
    /\ SetSelectedWords(extractedWords)

DeselectAllWords ==
    /\ mounted /\ extractedWords # {}
    /\ SetSelectedWords({})

\* What addSelectedWords and addAllWords do with the words to add (lines
\* 287-292, 296-301).
BulkAdd(words, complaint) ==
    /\ IF words = {}
       THEN /\ toast' = complaint
            /\ UNCHANGED <<isBulkAdding, mutations>>
       ELSE /\ Requests < MaxRequests
            /\ isBulkAdding' = TRUE
            /\ mutations' = Append(mutations, [kind |-> "bulk", live |-> TRUE])
            /\ toast' = "none"
    /\ UNCHANGED <<mounted, isProcessing, isFetchingWord, autoFillSuccess,
                   extractedWords, selectedWords, watchedWord, formDetails,
                   debounce, lookups, extractions>>
    /\ UNCHANGED <<quizState, authVars>>

\* addSelectedWords (lines 285-293) behind its button (lines 581-583), in
\* the section rendered while there are extracted words (line 534).
AddSelectedWords ==
    /\ mounted /\ extractedWords # {}
    /\ selectedWords # {} /\ ~isBulkAdding
    /\ BulkAdd(extractedWords \cap selectedWords, "select_a_word")

\* addAllWords (lines 295-302) behind its button (lines 593-595).
AddAllWords ==
    /\ mounted /\ extractedWords # {}
    /\ ~isBulkAdding
    /\ BulkAdd(extractedWords, "no_words")

\* onSubmit (lines 378-380) behind the submit button, which is disabled
\* while createMutation.isLoading (line 942); the form passes the schema,
\* which wants a word (line 43).
OnSubmit ==
    /\ mounted /\ watchedWord # << >>
    /\ ~createIsLoading
    /\ Requests < MaxRequests
    /\ mutations' = Append(mutations, [kind |-> "create", live |-> TRUE])
    /\ toast' = "none"
    /\ UNCHANGED <<mounted, instanceVars, debounce, lookups, extractions>>
    /\ UNCHANGED <<quizState, authVars>>

\* The i-th creation in flight succeeds (onSuccess, lines 137-144 and
\* 170-178): the callbacks of useMutation run whether or not the instance
\* is still mounted, and navigate leaves the page.
MutationSuccess(i) ==
    /\ i \in 1..Len(mutations)
    /\ toast' = IF mutations[i].kind = "bulk" THEN "bulk_ok" ELSE "word_added"
    /\ Unmount(lookups, extractions, RemoveAt(mutations, i))
    /\ UNCHANGED <<quizState, authVars>>

\* The i-th creation in flight fails (onError, lines 145-147 and 179-181).
MutationFail(i) ==
    /\ i \in 1..Len(mutations)
    /\ mutations' = RemoveAt(mutations, i)
    /\ toast' = IF mutations[i].kind = "bulk" THEN "bulk_failed"
                ELSE "create_failed"
    /\ UNCHANGED <<mounted, instanceVars, debounce, lookups, extractions>>
    /\ UNCHANGED <<quizState, authVars>>

BulkSuccess(i) == mutations[i].kind = "bulk" /\ MutationSuccess(i)
BulkFail(i) == mutations[i].kind = "bulk" /\ MutationFail(i)
CreateSuccess(i) == mutations[i].kind = "create" /\ MutationSuccess(i)
CreateFail(i) == mutations[i].kind = "create" /\ MutationFail(i)

\* The user edits the word field; the auto-fetch effect (lines 94-125) clears
\* its timeout and sets a new one, whose closure holds the new word.
ChangeWord(w) ==
    /\ mounted /\ w # watchedWord
    /\ watchedWord' = w
    /\ debounce' = [set |-> TRUE, word |-> w]
    /\ toast' = "none"
    /\ UNCHANGED <<mounted, isProcessing, isFetchingWord, autoFillSuccess,
                   extractedWords, selectedWords, isBulkAdding,
                   formDetails, requestVars>>
    /\ UNCHANGED <<quizState, authVars>>

\* handleWordSelection (lines 256-264) on the card of the extracted word w
\* (line 643): the word and its details are written into the form; when the
\* word field changes by it, the auto-fetch effect sets a new timeout.
HandleWordSelection(w) ==
    /\ mounted /\ w \in extractedWords
    /\ watchedWord' = w
    /\ formDetails' = w
    /\ debounce' = IF w # watchedWord THEN [set |-> TRUE, word |-> w]
                   ELSE debounce
    /\ toast' = "none"
    /\ UNCHANGED <<mounted, isProcessing, isFetchingWord, autoFillSuccess,
                   extractedWords, selectedWords, isBulkAdding, requestVars>>
    /\ UNCHANGED <<quizState, authVars>>

\* A lookup in flight: the word in the path of the GET, and who sent it.
Lookup(w, by) == [word |-> Trim(w), by |-> by, live |-> TRUE]

\* The timeout fires: fetchWordDetails up to its await (lines 95-100).
DebounceFires ==
    /\ debounce.set
    /\ debounce' = [set |-> FALSE, word |-> << >>]
    /\ IF Lookable(debounce.word)
       THEN /\ Len(lookups) < MaxLookups /\ Requests < MaxRequests
            /\ isFetchingWord' = TRUE
            /\ autoFillSuccess' = FALSE
            /\ lookups' = Append(lookups, Lookup(debounce.word, "auto"))
       ELSE UNCHANGED <<isFetchingWord, autoFillSuccess, lookups>>
    /\ toast' = "none"
    /\ UNCHANGED <<mounted, isProcessing, extractedWords, selectedWords,
                   isBulkAdding, watchedWord, formDetails, extractions,
                   mutations>>
    /\ UNCHANGED <<quizState, authVars>>

\* The refresh button up to its await (lines 736-743, 761).
RefreshDetails ==
    /\ mounted /\ Lookable(watchedWord) /\ ~isFetchingWord
    /\ Len(lookups) < MaxLookups /\ Requests < MaxRequests
    /\ isFetchingWord' = TRUE
    /\ autoFillSuccess' = FALSE
    /\ lookups' = Append(lookups, Lookup(watchedWord, "refresh"))
    /\ toast' = "none"
    /\ UNCHANGED <<mounted, isProcessing, extractedWords, selectedWords,
                   isBulkAdding, watchedWord, formDetails, debounce,
                   extractions, mutations>>
    /\ UNCHANGED <<quizState, authVars>>

\* The i-th lookup in flight answers with the details of its word, which
\* are written into the form (lines 101-112, 117 and 744-754, 758); for an
\* instance that is gone only the toast is left of that.
LookupSuccess(i) ==
    /\ i \in 1..Len(lookups)
    /\ lookups' = RemoveAt(lookups, i)
    /\ IF lookups[i].live
       THEN /\ formDetails' = lookups[i].word
            /\ autoFillSuccess' = TRUE
            /\ isFetchingWord' = FALSE
       ELSE UNCHANGED <<formDetails, autoFillSuccess, isFetchingWord>>
    /\ toast' = IF lookups[i].by = "auto" THEN "details_found"
                ELSE "details_updated"
    /\ UNCHANGED <<mounted, isProcessing, extractedWords, selectedWords,
                   isBulkAdding, watchedWord, debounce, extractions,
                   mutations>>
    /\ UNCHANGED <<quizState, authVars>>

\* The i-th lookup fails (lines 113-118 and 755-759).
LookupFail(i) ==
    /\ i \in 1..Len(lookups)
    /\ lookups' = RemoveAt(lookups, i)
    /\ isFetchingWord' = IF lookups[i].live THEN FALSE ELSE isFetchingWord
    /\ toast' = IF lookups[i].by = "auto" THEN "none" ELSE "word_not_found"
    /\ UNCHANGED <<mounted, isProcessing, autoFillSuccess, extractedWords,
                   selectedWords, isBulkAdding, watchedWord, formDetails,
                   debounce, extractions, mutations>>
    /\ UNCHANGED <<quizState, authVars>>

\* -------------------------------------------------------------- Next
\* The steps both specifications take.
Engine ==
    \/ StartQuiz
    \/ \E k \in Keys : FetchFail(k)
    \/ \E o \in Options : AnswerSelect(o)
    \/ ResetQuiz
    \/ Tick
    \/ \E i \in 1..Len(pendingSubmits) : SubmitSuccess(i)
    \/ \E i \in 1..Len(pendingSubmits) : SubmitFail(i)

\* Spec: the user keeps the default configuration, and every handler of the
\* quiz view is invoked on sessions of up to two questions.
Next ==
    \/ Engine
    \/ \E k \in Keys, qs \in Responses : FetchSuccess(k, qs)
    \/ NextQuestion
    \/ PreviousQuestion
    \/ FinishQuiz

Spec == Init /\ [][Next]_vars

\* SpecConfig: the user also switches the quiz type between attempts, so that
\* fetches of two keys are in flight together; sessions have one question and
\* are finished by the timer only.
NextConfig ==
    \/ Engine
    \/ \E t \in QuizTypes : SetQuizType(t)
    \/ \E k \in Keys, qs \in ShortResponses : FetchSuccess(k, qs)

SpecConfig == Init /\ [][NextConfig]_vars

\* SpecFilters: the user changes any of the three settings between attempts
\* and acts before the first tick of the timer; sessions have one question.
NextFilters ==
    \/ StartQuiz
    \/ \E k \in Keys, qs \in ShortResponses : FetchSuccess(k, qs)
    \/ \E k \in Keys : FetchFail(k)
    \/ \E t \in QuizTypes : SetQuizType(t)
    \/ \E n \in QuestionCounts : SetQuestionCount(n)
    \/ \E st \in Statuses : SetStatus(st)
    \/ \E o \in Options : AnswerSelect(o)
    \/ FinishQuiz
    \/ ResetQuiz
    \/ \E i \in 1..Len(pendingSubmits) : SubmitSuccess(i)
    \/ \E i \in 1..Len(pendingSubmits) : SubmitFail(i)

SpecFilters == Init /\ [][NextFilters]_vars

\* SpecReview: the user answers, finishes and marks the incorrect words for
\* review before the first tick of the timer.
Review ==
    \/ MarkWordsForReview
    \/ \E i \in 1..Len(reviews) : \E j \in reviews[i].inflight : PutSuccess(i, j)
    \/ \E i \in 1..Len(reviews) : \E j \in reviews[i].inflight : PutFail(i, j)

NextReview ==
    \/ StartQuiz
    \/ \E k \in Keys, qs \in Responses : FetchSuccess(k, qs)
    \/ \E o \in Options : AnswerSelect(o)
    \/ NextQuestion
    \/ FinishQuiz
    \/ ResetQuiz
    \/ \E i \in 1..Len(pendingSubmits) : SubmitSuccess(i)
    \/ \E i \in 1..Len(pendingSubmits) : SubmitFail(i)
    \/ Review

SpecReview == Init /\ [][NextReview]_vars

\* SpecHandler: as SpecReview, with markWordsForReview invoked on any
\* QuizResult, also one without an incorrect entry.
NextHandler ==
    \/ StartQuiz
    \/ \E k \in Keys, qs \in Responses : FetchSuccess(k, qs)
    \/ \E o \in Options : AnswerSelect(o)
    \/ NextQuestion
    \/ FinishQuiz
    \/ ResetQuiz
    \/ \E i \in 1..Len(pendingSubmits) : SubmitSuccess(i)
    \/ \E i \in 1..Len(pendingSubmits) : SubmitFail(i)
    \/ CallMarkWordsForReview
    \/ \E i \in 1..Len(reviews) : \E j \in reviews[i].inflight : PutSuccess(i, j)
    \/ \E i \in 1..Len(reviews) : \E j \in reviews[i].inflight : PutFail(i, j)

SpecHandler == Init /\ [][NextHandler]_vars

\* SpecLive: sessions of one question under the default configuration; the
\* interval keeps firing while it is set.
NextLive ==
    \/ Engine
    \/ \E k \in Keys, qs \in ShortResponses : FetchSuccess(k, qs)

SpecLive == Init /\ [][NextLive]_vars /\ WF_vars(Tick)

\* SpecAuth: login, register, updateUser, logout and the completions of the
\* profile checks in any order.
NextAuth ==
    \/ Login
    \/ \E u \in Users : LoginSuccess(u)
    \/ LoginFail
    \/ Register
    \/ \E u \in Users : RegisterSuccess(u)
    \/ RegisterFail
    \/ UpdateUser
    \/ \E u \in Users : UpdateUserSuccess(u)
    \/ UpdateUserFail
    \/ Logout
    \/ \E t \in Tokens : CheckSuccess(t)
    \/ \E t \in Tokens : CheckFail(t)

SpecAuth == InitAuth /\ [][NextAuth]_vars

\* SpecAddWord: extraction, selection, bulk and single-word creation and the
\* dictionary auto-fill of the AddWord page.
NextAddWord ==
    \/ MountAddWord
    \/ Cancel
    \/ ProcessText
    \/ OnPdfDrop
    \/ OnImageDrop
    \/ \E i \in 1..Len(extractions), ws \in SUBSET Extractable :
           ProcessSuccess(i, ws)
    \/ \E i \in 1..Len(extractions) : ProcessFail(i)
    \/ \E w \in Extractable : ToggleWordSelection(w)
    \/ SelectAllWords
    \/ DeselectAllWords
    \/ AddSelectedWords
    \/ AddAllWords
    \/ OnSubmit
    \/ \E i \in 1..Len(mutations) : BulkSuccess(i)
    \/ \E i \in 1..Len(mutations) : BulkFail(i)
    \/ \E i \in 1..Len(mutations) : CreateSuccess(i)
    \/ \E i \in 1..Len(mutations) : CreateFail(i)
    \/ \E w \in WordInputs : ChangeWord(w)
    \/ \E w \in Extractable : HandleWordSelection(w)
    \/ DebounceFires
    \/ RefreshDetails
    \/ \E i \in 1..Len(lookups) : LookupSuccess(i)
    \/ \E i \in 1..Len(lookups) : LookupFail(i)

SpecAddWord == Init /\ [][NextAddWord]_vars

TypeOK ==
    /\ quizType \in QuizTypes
    /\ questionCount \in QuestionCounts
    /\ status \in Statuses
    /\ timeLeft \in 0..(2 * SecondsPerQuestion)
    /\ currentQuestionIndex \in 0..1
    /\ DOMAIN selectedAnswers \subseteq Words
    /\ sessionSubmits \in 0..2
    /\ revisit \in {"none", "away", "back", "changed"}
    /\ Len(reviews) <= MaxReviews
    /\ \A i \in 1..Len(reviews) : reviews[i].inflight # {}
    /\ user \in Users \cup {NoUser}
    /\ token \in Tokens \cup {NoToken}
    /\ localStorageToken \in Tokens \cup {NoToken}
    /\ AuthInFlight <= MaxAuthInFlight
    /\ selectedWords \subseteq extractedWords
    /\ bulkInFlight \in 0..1
    /\ Requests <= MaxRequests
    /\ mounted \/ \A i \in 1..Len(lookups) : ~lookups[i].live
    /\ watchedWord \in WordInputs
    /\ Len(lookups) <= MaxLookups

\* ==================================================================
\* Properties
\* ==================================================================

\* A step in which the fetch of key k settles, and how it settled.
FetchSettles(k) == cache[k].waiters > 0 /\ cache'[k].waiters = 0
FetchFails(k) == FetchSettles(k) /\ cache'[k].err
FetchReturnsEmpty(k) ==
    FetchSettles(k) /\ ~cache'[k].err /\ Len(cache'[k].data.questions) = 0
FetchReturnsQuestions(k) ==
    FetchSettles(k) /\ ~cache'[k].err /\ Len(cache'[k].data.questions) > 0

\* C1: finish invoked again in a session that is already finished submits
\* nothing: a session submits its QuizResult at most once.
C1_SubmittedOncePerSession == sessionSubmits <= 1

\* C2: the tick that takes the countdown to 0 finishes the session exactly
\* once (one submission, results shown, timer stopped), and ticks are only
\* ever processed while the timer is running with time left, so none is
\* processed after it.
C2_TimerFinishesOnce ==
    [][Tick =>
        /\ timerActive /\ timeLeft > 0
        /\ timeLeft = 1 =>
              /\ timeLeft' = 0
              /\ ~timerActive'
              /\ ~intervalOn'
              /\ showResults'
              /\ sessionSubmits' = 1]_vars

\* The timer has taken the countdown to 0 and finished the session.
C2_Witness ==
    /\ quizStarted /\ timeLeft = 0 /\ showResults
    /\ sessionSubmits = 1 /\ ~intervalOn

\* C3: once resetQuiz has discarded the session no interval is left to tick,
\* and the discarded session has no results computed or shown.
C3_NoTickAfterReset ==
    ~quizStarted =>
        /\ ~intervalOn
        /\ ~timerActive
        /\ ~showResults
        /\ quizResults = << >>

\* A session that was never finished, so whose timer was running, has been
\* reset.
C3_Witness ==
    /\ ~quizStarted /\ ~error
    /\ quizData.has /\ Len(quizData.questions) > 0
    /\ sessionSubmits = 0
    /\ timeLeft = 0

\* C4: the completion of a fetch that was in flight when resetQuiz ran does
\* not start the quiz, set the remaining seconds or start the timer.
C4_LateFetchIgnored ==
    [][\A k \in Keys :
         (k \in discarded /\ FetchSettles(k)) =>
             UNCHANGED <<quizStarted, timeLeft, timerActive>>]_vars

\* C5: when the timer's zero tick was processed first, the user's finish that
\* is processed second changes nothing.
C5_SecondFinishChangesNothing ==
    [][(quizStarted /\ showResults /\ timeLeft = 0 /\ FinishQuiz) =>
         UNCHANGED <<quizResults, pendingSubmits, sessionSubmits>>]_vars

\* C6: the QuizResult of a finish by the timer carries, for every question,
\* the answer recorded for it at the moment of expiry.
C6_ExpiryUsesCurrentAnswers ==
    [][(Tick /\ timeLeft <= 1) =>
         quizResults' = ComputeResults(quizData.questions, selectedAnswers)]_vars

\* C7: a fetch that returns N > 0 questions starts the session at index 0
\* with no answers, N * 30 seconds, the timer running and no results shown.
C7_StartInitialisesSession ==
    [][\A k \in Keys :
         (k = Key /\ FetchReturnsQuestions(k)) =>
             /\ quizStarted'
             /\ currentQuestionIndex' = 0
             /\ selectedAnswers' = EmptyAnswers
             /\ timeLeft' = Len(cache'[k].data.questions) * 30
             /\ timerActive'
             /\ intervalOn'
             /\ ~showResults']_vars

\* A session of two questions has just started with 60 seconds.
C7_Witness ==
    /\ quizStarted /\ Len(quizData.questions) = 2
    /\ timeLeft = 60 /\ timerActive /\ intervalOn
    /\ currentQuestionIndex = 0 /\ selectedAnswers = EmptyAnswers
    /\ ~showResults

\* C8: a fetch that fails or returns no question creates no session: the
\* quiz is not started and the timer does not run.
C8_NoSessionWithoutQuestions ==
    [][\A k \in Keys :
         (FetchFails(k) \/ FetchReturnsEmpty(k)) =>
             (~quizStarted' /\ ~timerActive' /\ ~intervalOn')]_vars

\* C9: the 'no questions available' notice is never issued for a fetch that
\* failed.
C9_FailureNoticeDistinct ==
    [][\A k \in Keys : FetchFails(k) => toast' # "no_questions"]_vars

\* C10: after a start attempt that failed or returned no question the
\* configuration is unchanged and the configuration view is shown again.
C10_BackToConfiguring ==
    [][\A k \in Keys :
         (k = Key /\ (FetchFails(k) \/ FetchReturnsEmpty(k))) =>
             (UNCHANGED configVars /\ View' = "config")]_vars

\* C11: selecting an answer for a wordId leaves exactly one entry for that
\* wordId, the option just selected, whatever was recorded for it before, and
\* leaves the entries of the other wordIds as they were.
C11_SelectOverwrites ==
    [][\A o \in Options :
         AnswerSelect(o) =>
             LET w == currentQuestion.wordId IN
             /\ DOMAIN selectedAnswers' = DOMAIN selectedAnswers \cup {w}
             /\ selectedAnswers'[w] = o
             /\ \A v \in DOMAIN selectedAnswers \ {w} :
                    selectedAnswers'[v] = selectedAnswers[v]]_vars

\* The answer of the first question was replaced by another one while the
\* second question had its answer recorded.
C11_Witness ==
    /\ quizStarted /\ ~showResults
    /\ revisit = "changed"
    /\ DOMAIN selectedAnswers = Words

\* C12: once the session is finished (its results are shown), selecting an
\* answer changes neither the answers map nor the QuizResult.
C12_SelectAfterFinishRejected ==
    [][\A o \in Options :
         (showResults /\ AnswerSelect(o)) =>
             UNCHANGED <<selectedAnswers, quizResults>>]_vars

\* C13: from the finish that computed it until reset discards it, the
\* QuizResult of a session does not change.
C13_ResultsNeverRecomputed ==
    [][(showResults /\ showResults') => UNCHANGED quizResults]_vars

\* rs has one entry per question of qs, in the order of qs.
OnePerQuestion(rs, qs) ==
    /\ Len(rs) = Len(qs)
    /\ \A i \in 1..Len(qs) : rs[i].wordId = qs[i].wordId

\* C14: the QuizResult a finish computes, by the user or by the timer, has one
\* entry per question of the question list that finish works on, in the
\* order of the list, whichever of the questions were answered.
C14_OneEntryPerQuestion ==
    [][/\ (FinishQuiz \/ (NextQuestion /\ isLastQuestion)) =>
             OnePerQuestion(quizResults', quizData.questions)
       /\ (Tick /\ timeLeft <= 1 /\ capData.has) =>
             OnePerQuestion(quizResults', capData.questions)]_vars

\* A session of two questions was finished with the first question answered
\* and the second one not.
C14_Witness ==
    /\ showResults /\ Len(quizResults) = 2
    /\ quizResults[1].selectedAnswer # ""
    /\ quizResults[2].selectedAnswer = ""

\* C15: every entry of the QuizResult carries the correctAnswer of the
\* question of its wordId, and is correct exactly when it carries an answer
\* and that answer is the correctAnswer; an entry without an answer is
\* incorrect.  Neither the time left nor the answers given before enter it.
C15_CorrectIffAnswerMatches ==
    \A i \in 1..Len(quizResults) :
        LET r == quizResults[i] IN
        /\ \E q \in {Q1, Q2} :
               q.wordId = r.wordId /\ q.correctAnswer = r.correctAnswer
        /\ r.correct = (r.selectedAnswer # ""
                        /\ r.selectedAnswer = r.correctAnswer)

\* A result with a correct entry and an entry that carries a wrong answer.
C15_Witness ==
    /\ showResults /\ Len(quizResults) = 2
    /\ quizResults[1].correct
    /\ quizResults[2].selectedAnswer = "a" /\ ~quizResults[2].correct

\* C16: the result of a finish by the user carries, for every question, the
\* answer recorded last for it, and judges that answer only.
C16_FinishUsesLatestAnswers ==
    [][FinishQuiz =>
         \A i \in 1..Len(quizData.questions) :
             LET q == quizData.questions[i] IN
             /\ quizResults'[i].selectedAnswer = AnswerOf(selectedAnswers, q.wordId)
             /\ quizResults'[i].correct =
                    (AnswerOf(selectedAnswers, q.wordId) = q.correctAnswer)]_vars

\* The first question was answered, left by Next, returned to by Previous,
\* its answer changed to the incorrect option, and the user then finished
\* with time left: the entry carries the incorrect answer.
C16_Witness ==
    /\ showResults /\ timeLeft > 0 /\ sessionSubmits = 1
    /\ revisit = "changed"
    /\ selectedAnswers["w1"] = "b"
    /\ quizResults[1].selectedAnswer = "b" /\ ~quizResults[1].correct

\* C17: on the last question, once it is answered, nextQuestion can be
\* invoked (and then acts as finish does).
C17_NextAtLastFinishes ==
    (View = "quiz" /\ ~showResults /\ isLastQuestion /\ hasAnswered) =>
        ENABLED NextQuestion

\* C18: on a question that is not the last and has no answer recorded,
\* nextQuestion can be invoked.
C18_NextWithoutAnswer ==
    (View = "quiz" /\ ~showResults /\ ~isLastQuestion /\ ~hasAnswered) =>
        ENABLED NextQuestion

\* C19: previousQuestion acts only at an index greater than 0, moves the
\* index back by exactly one, and changes neither the answers nor anything a
\* finish or a submission would change.
C19_PreviousOnlyMovesBack ==
    [][PreviousQuestion =>
         /\ currentQuestionIndex > 0
         /\ currentQuestionIndex' = currentQuestionIndex - 1
         /\ UNCHANGED <<selectedAnswers, quizResults, showResults, quizStarted,
                        timerActive, timeLeft, pendingSubmits,
                        sessionSubmits>>]_vars

\* The user went to the second question, answered it and came back to the
\* first: both answers are still recorded.
C19_Witness ==
    /\ quizStarted /\ ~showResults
    /\ revisit = "back" /\ currentQuestionIndex = 0
    /\ DOMAIN selectedAnswers = Words

\* C20: after reset the quiz is not started, the index is 0, the answers map
\* and the QuizResult are empty, no time is left, the timer is stopped, no
\* results are shown, and the questions of the session are no longer held.
C20_ResetDiscardsSession ==
    [][ResetQuiz =>
         /\ ~quizStarted'
         /\ currentQuestionIndex' = 0
         /\ selectedAnswers' = EmptyAnswers
         /\ timeLeft' = 0
         /\ ~timerActive' /\ ~intervalOn'
         /\ ~showResults'
         /\ quizResults' = << >>
         /\ ~cache'[Key'].data.has]_vars

\* C21: a session that starts holds no answers and no result, and its
\* questions are the ones the fetch of its own key has just delivered, never
\* questions kept from an earlier attempt.
C21_FreshSessionAfterReset ==
    [][(~quizStarted /\ quizStarted') =>
         /\ selectedAnswers' = EmptyAnswers
         /\ quizResults' = << >>
         /\ ~showResults'
         /\ \E k \in Keys : k = Key /\ FetchReturnsQuestions(k)]_vars

\* C22: markWordsForReview issues, for every entry of the QuizResult, one
\* request for its wordId if the entry is incorrect and none if it is
\* correct, and every request sets the status 'reviewing'.
C22_OneRequestPerIncorrectEntry ==
    [][MarkWordsForReview =>
         LET issued == IF Len(reviews') > Len(reviews)
                       THEN reviews'[Len(reviews')].requests
                       ELSE << >>
         IN  /\ \A n \in 1..Len(issued) : issued[n].status = "reviewing"
             /\ \A k \in 1..Len(quizResults) :
                   Cardinality({n \in 1..Len(issued) :
                                  issued[n].wordId = quizResults[k].wordId})
                     = IF quizResults[k].correct THEN 0 ELSE 1]_vars

\* Of a result with a correct and an incorrect entry, the one request for
\* the incorrect entry is in flight.
C22_Witness ==
    /\ showResults /\ Len(quizResults) = 2
    /\ quizResults[1].correct /\ ~quizResults[2].correct
    /\ Len(reviews) = 1
    /\ Len(reviews[1].requests) = 1
    /\ reviews[1].requests[1].wordId = "w2"
    /\ reviews[1].inflight = {1}

\* C23: when a request of markWordsForReview fails after another request of
\* the same call succeeded, the call does not report a plain failure.
C23_PartialFailureReported ==
    [][\A i \in 1..Len(reviews) : \A j \in reviews[i].inflight :
         (PutFail(i, j) /\ reviews[i].succeeded # {}) =>
             toast' # "review_failed"]_vars

\* C24: a call of markWordsForReview that has reported its outcome has no
\* request in flight.
C24_ReportsAfterAllSettled ==
    \A i \in 1..Len(reviews) :
        reviews[i].reported => reviews[i].inflight = {}

\* C25: a failed submission changes nothing of the quiz (results shown,
\* QuizResult, answers, index, time, timer), sends no further request, and
\* issues the failure notice.
C25_FailedSubmissionOnlyNotifies ==
    [][\A i \in 1..Len(pendingSubmits) :
         SubmitFail(i) =>
             /\ UNCHANGED <<sessionVars, closureVars>>
             /\ Len(pendingSubmits') = Len(pendingSubmits) - 1
             /\ toast' = "submit_failed"]_vars

\* The submission of a finished session has just failed, the results are
\* still shown.
C25_Witness ==
    /\ toast = "submit_failed"
    /\ quizStarted /\ showResults /\ Len(quizResults) > 0
    /\ pendingSubmits = << >>

\* C26: the step that starts a submission shows the results and stops the
\* timer itself, without the outcome of the submission; the outcome is
\* reported only in a step in which a submission resolves.
C26_FinishDoesNotWait ==
    [][/\ Len(pendingSubmits') > Len(pendingSubmits) =>
             /\ showResults' /\ ~timerActive'
             /\ toast' \notin {"submit_ok", "submit_failed"}
       /\ toast' \in {"submit_ok", "submit_failed"} =>
             Len(pendingSubmits') < Len(pendingSubmits)]_vars

\* The results of the current session are shown while the response to its
\* submission is outstanding.
C26_Witness ==
    /\ quizStarted /\ showResults /\ Len(quizResults) > 0
    /\ Len(pendingSubmits) = 1
    /\ pendingSubmits[1].current /\ pendingSubmits[1].latest
    /\ ~mutationData.has

\* C27: while a session lasts the remaining seconds never increase and never
\* become negative, and a tick takes exactly one second off.
C27_TimeOnlyCountsDown ==
    [][(quizStarted /\ quizStarted') =>
         /\ timeLeft' <= timeLeft
         /\ timeLeft' >= 0
         /\ Tick => timeLeft' = timeLeft - 1]_vars

\* C28: a session in progress whose interval keeps firing is eventually
\* finished by the timer, with 0 seconds left and the results shown, unless
\* the user resets it.
C28_TimerEventuallyFinishes ==
    (quizStarted /\ timerActive /\ timeLeft > 0)
        ~> ((timeLeft = 0 /\ showResults) \/ ~quizStarted)

\* The timer ran out on a session of one question and its result is shown.
C28_Witness ==
    /\ quizStarted /\ ~timerActive /\ timeLeft = 0
    /\ showResults /\ Len(quizResults) = 1

\* C29: whenever the quiz is started the current index is at least 0 and
\* less than the number of questions.
C29_IndexInRange ==
    quizStarted =>
        /\ 0 <= currentQuestionIndex
        /\ currentQuestionIndex < Len(quizData.questions)

\* C30: in a started session that is not finished the answers map has at
\* most as many entries as there are questions, and each key is the wordId of
\* one of the questions.
C30_AnswersWithinQuestions ==
    (quizStarted /\ ~showResults) =>
        /\ Cardinality(DOMAIN selectedAnswers) <= Len(quizData.questions)
        /\ \A w \in DOMAIN selectedAnswers :
               \E i \in 1..Len(quizData.questions) :
                   quizData.questions[i].wordId = w

\* C31: selecting an answer leaves the current index, the remaining seconds,
\* the timer-running flag and the interval of the timer as they are.
C31_SelectChangesOnlyAnswers ==
    [][\A o \in Options :
         AnswerSelect(o) =>
             UNCHANGED <<currentQuestionIndex, timeLeft, timerActive,
                         intervalOn>>]_vars

\* On the first of two questions, with the timer running and seconds gone,
\* an answer is recorded and the first question is still the current one.
C31_Witness ==
    /\ quizStarted /\ ~showResults /\ timerActive /\ intervalOn
    /\ Len(quizData.questions) = 2 /\ currentQuestionIndex = 0
    /\ revisit = "none"
    /\ timeLeft = 2 * SecondsPerQuestion - 1
    /\ DOMAIN selectedAnswers = {"w1"}

\* The phase of the quiz: Loading while a startQuiz call that no reset has
\* discarded awaits its fetch.
Phase ==
    IF quizStarted THEN (IF showResults THEN "Finished" ELSE "InProgress")
    ELSE IF \E k \in Keys : cache[k].waiters > 0 /\ k \notin discarded
         THEN "Loading"
    ELSE "Configuring"

\* The moves of the state machine; reset leads to Configuring from
\* InProgress as it does from Finished.
PhaseMoves ==
    {<<"Configuring", "Loading">>, <<"Loading", "InProgress">>,
     <<"Loading", "Configuring">>, <<"InProgress", "Finished">>,
     <<"InProgress", "Configuring">>, <<"Finished", "Configuring">>}

\* Results are shown, and a QuizResult exists, only while the quiz is started.
ResultsImplyStarted == (showResults \/ quizResults # << >>) => quizStarted

\* C32: the phase changes only along the moves of the state machine, and
\* results are shown and a QuizResult exists only while the quiz is started.
C32_StateMachine ==
    [][/\ Phase' # Phase => <<Phase, Phase'>> \in PhaseMoves
       /\ ResultsImplyStarted']_vars

\* C33: a startQuiz call that resumes while a session is in progress or
\* finished leaves the answers, the index, the remaining seconds, the timer
\* and the results shown as they are.
C33_StartOnlyFromConfiguring ==
    [][\A k \in Keys :
         (quizStarted /\ FetchSettles(k)) =>
             UNCHANGED <<selectedAnswers, currentQuestionIndex, timeLeft,
                         timerActive, showResults>>]_vars

\* C34: markWordsForReview invoked on a QuizResult without an incorrect
\* entry issues no request and reports success.
C34_NothingToMark ==
    [][(CallMarkWordsForReview
          /\ \A i \in 1..Len(quizResults) : quizResults[i].correct) =>
             (UNCHANGED reviews /\ toast' = "review_none")]_vars

\* The handler has reported on a QuizResult of two correct entries; no
\* request is in flight.
C34_Witness ==
    /\ toast = "review_none"
    /\ showResults /\ Len(quizResults) = 2
    /\ \A i \in 1..Len(quizResults) : quizResults[i].correct
    /\ reviews = << >>

\* C35: the summary displayed with the results is the one of a submission of
\* the session that is current.
C35_SummaryOfOwnSubmission ==
    (showResults /\ mutationData.has) => mutationData.current

\* The summary of the current session's submission is displayed while a
\* submission of an earlier session is still in flight.
C35_Witness ==
    /\ showResults /\ mutationData.has /\ mutationData.current
    /\ Len(pendingSubmits) = 1 /\ ~pendingSubmits[1].current

\* C36: whenever user is set, token is set and is the token in localStorage.
C36_UserImpliesToken ==
    user # NoUser => (token # NoToken /\ token = localStorageToken)

\* C37: after logout user stays null until a login or register succeeds.
C37_NoUserAfterLogout == loggedOut => user = NoUser

\* C38: a login or register that fails leaves user, token and the token in
\* localStorage as they were, and its promise is rejected.
C38_FailedCallChangesNothing ==
    [][(LoginFail \/ RegisterFail) =>
         /\ UNCHANGED <<user, token, localStorageToken>>
         /\ authResult' = "rejected"]_vars

\* A login failed while a user was signed in: the user and both copies of
\* the token are still there.
C38_Witness ==
    /\ authResult = "rejected" /\ toast = "login_failed"
    /\ user = "u1" /\ token = "t1" /\ localStorageToken = "t1"

\* C39: the bulk-adding flag is set only while a bulk-create request of the
\* mounted component is in flight.
C39_BulkFlagOnlyWhileInFlight == isBulkAdding => bulkInFlight > 0

\* C40: the details a lookup writes into the form are those of the word
\* that is in the word field when they are written.
C40_AutoFillForCurrentWord ==
    [][\A i \in 1..Len(lookups) :
         (LookupSuccess(i) /\ lookups[i].live) =>
             lookups[i].word = Trim(watchedWord)]_vars

====
